---------------------------- MODULE Spec2Model ----------------------------
(***************************************************************************)
(* ChatCatcher (src/bot.js): a chat bot that stores trigger/response       *)
(* records in a document collection and answers messages that contain a    *)
(* stored trigger.  The model covers the text helpers (normalizeText,      *)
(* extractQuotedStrings), the store operations (addResponse,               *)
(* removeResponse, editResponse, checkMessages) and the messageCreate      *)
(* handler, one action per continuation between two awaits.                *)
(*                                                                         *)
(* A text is a sequence of characters.  An ASCII character is the string   *)
(* of that character; a non-ASCII character is named by a token:           *)
(*   "LSQ" U+2018  "RSQ" U+2019  "LDQ" U+201C  "RDQ" U+201D                *)
(*   "EN"  U+2013  "EM"  U+2014  "ARROW" U+2192                            *)
(* The fixed wording of a reply (a template literal's constant part) is    *)
(* kept as one piece, e.g. "Error: ".                                      *)
(***************************************************************************)
EXTENDS Naturals, Sequences, FiniteSets, TLC

-----------------------------------------------------------------------------
(* Characters and String.prototype helpers *)

DQ == "\""
SQ == "'"

UpperLetters == <<"A","B","C","D","E","F","G","H","I","J","K","L","M",
                  "N","O","P","Q","R","S","T","U","V","W","X","Y","Z">>
LowerLetters == <<"a","b","c","d","e","f","g","h","i","j","k","l","m",
                  "n","o","p","q","r","s","t","u","v","w","x","y","z">>

\* String.prototype.toLowerCase on one character
LowerChar(c) ==
  IF \E i \in DOMAIN UpperLetters : UpperLetters[i] = c
  THEN LowerLetters[CHOOSE i \in DOMAIN UpperLetters : UpperLetters[i] = c]
  ELSE c

\* the text left in the letter case it was typed in
toLowerCase_identity(text) == text

\* String.prototype.toLowerCase
toLowerCase(text) == [i \in DOMAIN text |-> LowerChar(text[i])]

\* String.prototype.startsWith
startsWith(text, prefix) ==
  /\ Len(prefix) <= Len(text)
  /\ SubSeq(text, 1, Len(prefix)) = prefix

\* includes, were it to test the start of the text only
includes_prefixOnly(text, sub) ==
  /\ Len(sub) <= Len(text)
  /\ SubSeq(text, 1, Len(sub)) = sub

\* String.prototype.includes: sub is a contiguous substring of text
includes(text, sub) ==
  \E i \in 0..Len(text) :
    /\ i + Len(sub) <= Len(text)
    /\ SubSeq(text, i + 1, i + Len(sub)) = sub

\* String.prototype.replace(/[set]/g, repl): every character of the class
\* is replaced by the text repl
RECURSIVE replaceAll(_, _, _)
replaceAll(text, class, repl) ==
  IF text = <<>> THEN <<>>
  ELSE (IF Head(text) \in class THEN repl ELSE <<Head(text)>>)
         \o replaceAll(Tail(text), class, repl)

WhiteSpace == {" ", "\n", "\t"}

RECURSIVE trimStart(_)
trimStart(text) ==
  IF text # <<>> /\ Head(text) \in WhiteSpace THEN trimStart(Tail(text)) ELSE text

RECURSIVE trimEnd(_)
trimEnd(text) ==
  IF text # <<>> /\ text[Len(text)] \in WhiteSpace
  THEN trimEnd(SubSeq(text, 1, Len(text) - 1)) ELSE text

\* String.prototype.trim
trim(text) == trimEnd(trimStart(text))

-----------------------------------------------------------------------------
(* normalizeText and extractQuotedStrings *)

SmartSingleQuotes == {"LSQ", "RSQ"}
SmartDoubleQuotes == {"LDQ", "RDQ"}
Dashes == {"EN", "EM"}

\* the normalization, were the ASCII hyphen taken for a dash as well
normalizeText_hyphens(text) ==
  trim(replaceAll(replaceAll(replaceAll(text,
         SmartSingleQuotes, <<SQ>>),
         SmartDoubleQuotes, <<DQ>>),
         Dashes \cup {"-"}, <<"-", "-">>))

normalizeText(text) ==
  trim(replaceAll(replaceAll(replaceAll(text,
         SmartSingleQuotes, <<SQ>>),
         SmartDoubleQuotes, <<DQ>>),
         Dashes, <<"-", "-">>))

\* the character class of quotesRegex: the source holds the plain double
\* quote and the plain apostrophe only
QuoteChars == {DQ, SQ}

\* the first position >= i of text that holds a quote character, or
\* Len(text) + 1
RECURSIVE nextQuote(_, _)
nextQuote(text, i) ==
  IF i > Len(text) THEN Len(text) + 1
  ELSE IF text[i] \in QuoteChars THEN i
  ELSE nextQuote(text, i + 1)

\* text.matchAll(quotesRegex) from position i on: the regex matches at an
\* opening quote that is followed by a non-empty run of non-quote characters
\* and a closing quote; the scan resumes after the closing quote, or, without
\* a match at i, at i + 1.  The result is the captured groups m[1].
RECURSIVE matchAll(_, _)
matchAll(text, i) ==
  LET open == nextQuote(text, i)
      close == nextQuote(text, open + 1)
  IN  IF open > Len(text) THEN <<>>
      ELSE IF close > open + 1 /\ close <= Len(text)
           THEN <<SubSeq(text, open + 1, close - 1)>> \o matchAll(text, close + 1)
           ELSE matchAll(text, open + 1)

extractQuotedStrings(text) ==
  LET matches == matchAll(text, 1)
  IN  [k \in DOMAIN matches |-> normalizeText(matches[k])]

-----------------------------------------------------------------------------
(* Messages, replies and trigger records *)

\* attachment.contentType when the attachment declares none
NoContentType == <<>>

ImagePrefix == <<"i","m","a","g","e","/">>

\* a record that was never edited has no updatedAt field
NoDate == 0

ErrExists == "Trigger already exists"
ErrFormat == "Invalid format"
ErrNotFound == "Trigger not found"
\* err.message of a rejected message.channel.send
ErrSend == "SendFailed"

HelpText == <<"Commands available: ...">>

CmdHelp == <<"-","-","h","e","l","p">>
CmdList == <<"-","-","l","i","s","t">>
CmdAdd == <<"-","-","a","d","d">>
CmdRemove == <<"-","-","r","e","m","o","v","e">>
CmdEdit == <<"-","-","e","d","i","t">>

TextReply(text) == [kind |-> "text", content |-> text]
FilesReply(url) == [kind |-> "files", content |-> url]

\* `Added: "${trigger}" -> ${type}` and its siblings
AddedText(trigger, type) == <<"Added: ", DQ>> \o trigger \o <<DQ, " ", "ARROW", " ", type>>
RemovedText(trigger) == <<"Removed: ", DQ>> \o trigger \o <<DQ>>
UpdatedText(trigger, type) == <<"Updated: ", DQ>> \o trigger \o <<DQ, " ", "ARROW", " ", type>>
ErrorText(err) == <<"Error: ", err>>

\* one line of the --list reply
ListLine(doc) == <<"- ", DQ>> \o doc.trigger \o <<DQ, " (", doc.type, ")">>

\* allResponses.map(...).join("\n")
RECURSIVE joinLines(_)
joinLines(docs) ==
  IF docs = <<>> THEN <<>>
  ELSE IF Len(docs) = 1 THEN ListLine(docs[1])
  ELSE ListLine(docs[1]) \o <<"\n">> \o joinLines(Tail(docs))

ListText(docs) == <<"Responses:", "\n">> \o joinLines(docs)

-----------------------------------------------------------------------------
(* The collection `responses`: a sequence of documents in natural order *)

\* the positions of the documents that satisfy the filter {trigger: t}
Matching(docs, t) == {i \in DOMAIN docs : docs[i].trigger = t}

Min(S) == CHOOSE x \in S : \A y \in S : x <= y

\* responses.findOne({trigger: t}) finds a document
findOne(docs, t) == Matching(docs, t) # {}

\* insertOne, were a unique index on trigger to keep the duplicate out
insertOne_unique(docs, doc) ==
  IF findOne(docs, doc.trigger) THEN docs ELSE Append(docs, doc)

\* responses.insertOne(doc)
insertOne(docs, doc) == Append(docs, doc)

\* deleteOne, were it to leave the document in the collection
deleteOne_kept(docs, t) == docs

\* responses.deleteOne({trigger: t}): the first matching document goes
deleteOne(docs, t) ==
  IF Matching(docs, t) = {} THEN docs
  ELSE LET i == Min(Matching(docs, t))
       IN  SubSeq(docs, 1, i - 1) \o SubSeq(docs, i + 1, Len(docs))

\* deletedCount, were it to report a deletion also when nothing matched
deletedCount_always(docs, t) == 1

\* result.deletedCount
deletedCount(docs, t) == IF Matching(docs, t) = {} THEN 0 ELSE 1

\* updateOne, were the $set to carry createdAt too
updateOne_resetsCreatedAt(docs, t, response, type, date, src) ==
  IF Matching(docs, t) = {} THEN docs
  ELSE LET i == Min(Matching(docs, t))
       IN  [docs EXCEPT ![i] = [@ EXCEPT !.response = response, !.type = type,
                                         !.updatedAt = date, !.createdAt = date,
                                         !.src = src]]

\* responses.updateOne({trigger: t}, {$set: fields}): the first matching
\* document gets the fields; without a match nothing is written
updateOne(docs, t, response, type, date, src) ==
  IF Matching(docs, t) = {} THEN docs
  ELSE LET i == Min(Matching(docs, t))
       IN  [docs EXCEPT ![i] = [@ EXCEPT !.response = response, !.type = type,
                                         !.updatedAt = date, !.src = src]]

\* checkMessages, were it to return the first matching document only
checkMessages_firstOnly(docs, content) ==
  LET Hit(doc) == includes(toLowerCase(content), doc.trigger)
      found == SelectSeq(docs, Hit)
  IN  IF found = <<>> THEN <<>> ELSE <<found[1]>>

\* checkMessages: the documents whose trigger the lowercased content includes
checkMessages(docs, content) ==
  LET Hit(doc) == includes(toLowerCase(content), doc.trigger)
  IN  SelectSeq(docs, Hit)

\* attachmentOrQuoted, were it to reject fewer than two quoted strings only
attachmentOrQuoted_atLeastTwo(message) ==
  IF Len(message.attachments) > 0
  THEN LET attachment == message.attachments[1]
       IN  [err |-> "",
            type |-> IF attachment.contentType # NoContentType
                        /\ startsWith(attachment.contentType, ImagePrefix)
                     THEN "image" ELSE "file",
            response |-> attachment.url]
  ELSE LET quoted == extractQuotedStrings(message.content)
       IN  IF Len(quoted) < 2
           THEN [err |-> ErrFormat, type |-> "", response |-> <<>>]
           ELSE [err |-> "", type |-> "text", response |-> quoted[2]]

\* attachmentOrQuoted, were two quoted strings to win over an attachment
attachmentOrQuoted_textFirst(message) ==
  LET quoted == extractQuotedStrings(message.content)
  IN  IF Len(quoted) = 2
      THEN [err |-> "", type |-> "text", response |-> quoted[2]]
      ELSE IF Len(message.attachments) > 0
      THEN LET attachment == message.attachments[1]
           IN  [err |-> "",
                type |-> IF attachment.contentType # NoContentType
                            /\ startsWith(attachment.contentType, ImagePrefix)
                         THEN "image" ELSE "file",
                response |-> attachment.url]
      ELSE [err |-> ErrFormat, type |-> "", response |-> <<>>]

\* the response and type of an Add or Edit: the first attachment, or else
\* the second of exactly two quoted strings of the raw message content
attachmentOrQuoted(message) ==
  IF Len(message.attachments) > 0
  THEN LET attachment == message.attachments[1]
       IN  [err |-> "",
            type |-> IF attachment.contentType # NoContentType
                        /\ startsWith(attachment.contentType, ImagePrefix)
                     THEN "image" ELSE "file",
            response |-> attachment.url]
  ELSE LET quoted == extractQuotedStrings(message.content)
       IN  IF Len(quoted) # 2
           THEN [err |-> ErrFormat, type |-> "", response |-> <<>>]
           ELSE [err |-> "", type |-> "text", response |-> quoted[2]]

-----------------------------------------------------------------------------
(* The messages the model feeds to the handler *)

Msg(content, attachments, bot) ==
  [content |-> content, attachments |-> attachments, bot |-> bot]

Quoted(text) == <<DQ>> \o text \o <<DQ>>
Curly(text) == <<"LDQ">> \o text \o <<"RDQ">>
Sp == <<" ">>

Hi == <<"h","i">>
HiUpper == <<"H","i">>
Oh == <<"o","h">>
Yo == <<"y","o">>
Ok == <<"o","k">>

Png == [url |-> <<"https://cdn/a.png">>,
        contentType |-> <<"i","m","a","g","e","/","p","n","g">>]
Pdf == [url |-> <<"https://cdn/b.pdf">>,
        contentType |-> <<"a","p","p","/","p","d","f">>]
Blob == [url |-> <<"https://cdn/c">>, contentType |-> NoContentType]

AddHiYo == Msg(CmdAdd \o Sp \o Quoted(Hi) \o Sp \o Quoted(Yo), <<>>, FALSE)
AddHiUpperOk == Msg(CmdAdd \o Sp \o Quoted(HiUpper) \o Sp \o Quoted(Ok), <<>>, FALSE)
AddOhHi == Msg(CmdAdd \o Sp \o Quoted(Oh) \o Sp \o Quoted(Hi), <<>>, FALSE)
RemoveHi == Msg(CmdRemove \o Sp \o Quoted(Hi), <<>>, FALSE)
RemoveHiUpper == Msg(CmdRemove \o Sp \o Quoted(HiUpper), <<>>, FALSE)
EditHiOk == Msg(CmdEdit \o Sp \o Quoted(Hi) \o Sp \o Quoted(Ok), <<>>, FALSE)
ListAll == Msg(CmdList, <<>>, FALSE)
Help == Msg(CmdHelp, <<>>, FALSE)
PlainOhHi == Msg(Oh \o Sp \o Hi, <<>>, FALSE)
PlainHiUpper == Msg(<<"H","I","!">>, <<>>, FALSE)
PlainSpaced == Msg(<<"h"," ","i">>, <<>>, FALSE)
BotHi == Msg(Hi, <<>>, TRUE)
BotList == Msg(CmdList, <<>>, TRUE)

\* Add and Edit with zero, one and three quoted strings, and with attachments
AddBare == Msg(CmdAdd, <<>>, FALSE)
AddHiOnly == Msg(CmdAdd \o Sp \o Quoted(Hi), <<>>, FALSE)
AddHiThree ==
  Msg(CmdAdd \o Sp \o Quoted(Hi) \o Sp \o Quoted(Yo) \o Sp \o Quoted(Ok), <<>>, FALSE)
AddHiPng == Msg(CmdAdd \o Sp \o Quoted(Hi), <<Png>>, FALSE)
AddHiYoPdf == Msg(CmdAdd \o Sp \o Quoted(Hi) \o Sp \o Quoted(Yo), <<Pdf, Png>>, FALSE)
AddOhBlob == Msg(CmdAdd \o Sp \o Quoted(Oh), <<Blob>>, FALSE)
EditHiOnly == Msg(CmdEdit \o Sp \o Quoted(Hi), <<>>, FALSE)
EditHiPng == Msg(CmdEdit \o Sp \o Quoted(Hi), <<Png>>, FALSE)
EditOhYo == Msg(CmdEdit \o Sp \o Quoted(Oh) \o Sp \o Quoted(Yo), <<>>, FALSE)
\* the same Add typed with curly quotes, with an em dash, and in capitals
AddHiYoCurly == Msg(CmdAdd \o Sp \o Curly(Hi) \o Sp \o Curly(Yo), <<>>, FALSE)
EditHiOkCurly == Msg(CmdEdit \o Sp \o Curly(Hi) \o Sp \o Curly(Ok), <<>>, FALSE)
AddHiYoDash ==
  Msg(<<"EM","a","d","d">> \o Sp \o Quoted(Hi) \o Sp \o Quoted(Yo), <<>>, FALSE)
AddHiYoCaps ==
  Msg(<<"-","-","A","D","D">> \o Sp \o Quoted(Hi) \o Sp \o Quoted(Yo), <<>>, FALSE)

\* the messages of the interleaved specification
Messages ==
  {AddHiYo, AddHiUpperOk, RemoveHi, EditHiOk, ListAll, Help, PlainOhHi, BotHi}

\* the messages of the interleaved specification about attachments
FileMessages ==
  {AddHiYoPdf, AddOhBlob, EditHiPng, EditHiOk, RemoveHi, ListAll, PlainOhHi}

\* the messages of the sequential specification
SeqMessages ==
  Messages \cup
  {AddOhHi, RemoveHiUpper, PlainHiUpper, PlainSpaced,
   AddBare, AddHiOnly, AddHiThree, AddHiPng, AddHiYoPdf, AddOhBlob,
   EditHiOnly, EditHiPng, EditOhYo, AddHiYoCurly, EditHiOkCurly, AddHiYoDash,
   AddHiYoCaps, BotList}

\* short texts over a few characters of every kind normalizeText tells apart
TextChars == {"a", " ", "-", DQ, "EM", "LDQ", "RSQ"}
\* how long these texts are at most
MaxTextLen == 3
Texts == UNION {[1..n -> TextChars] : n \in 0..MaxTextLen}
TextMessages == {Msg(text, <<>>, FALSE) : text \in Texts}

\* how many messages a behaviour receives
MaxMessages == 4
\* how many handlers are in flight at once
MaxInFlight == 2

Slots == 1..MaxInFlight

-----------------------------------------------------------------------------
(* The state *)

VARIABLES
  store,     \* the documents of the collection `responses`
  clock,     \* the number of messages received so far; the time of day
  hs,        \* per slot: the message being handled, where its handler
             \* stands, its locals and the replies it has sent; a slot is
             \* free again once its handler has returned.  Two fields are
             \* history: before, the store when the message arrived, and
             \* gone, for a List the triggers that were removed when it
             \* arrived and for a Remove the trigger it deleted, in both
             \* cases less the triggers inserted since
  promised,  \* history: the (trigger, response) of every text Add whose
             \* confirmation was delivered, until a Remove deletes a record
             \* of that trigger
  standing,  \* history: as promised, but also only until an Edit updates
             \* the record of that trigger
  removed    \* history: the triggers of which a Remove deleted a record
             \* and was then confirmed, with no insertOne of that trigger
             \* since the deleteOne

vars == <<store, clock, hs, promised, standing, removed>>

\* new Date(): the clock advances when a message arrives
Now == clock

NoMessage == Msg(<<>>, <<>>, FALSE)

\* extractQuotedStrings(content)[0]; the empty text stands for undefined too
\* (both are falsy and the handler throws on either)
firstQuoted(content) ==
  LET q == extractQuotedStrings(content)
  IN  IF Len(q) = 0 THEN <<>> ELSE q[1]

\* the prefix tests, were the one of --edit missing
classify_noEdit(content) ==
  IF startsWith(content, CmdHelp) THEN "help"
  ELSE IF startsWith(content, CmdList) THEN "list"
  ELSE IF startsWith(content, CmdAdd) THEN "add"
  ELSE IF startsWith(content, CmdRemove) THEN "remove"
  ELSE "plain"

\* the prefix tests, were they made on the lowercased content
classify_lowercased(content) ==
  IF startsWith(toLowerCase(content), CmdHelp) THEN "help"
  ELSE IF startsWith(toLowerCase(content), CmdList) THEN "list"
  ELSE IF startsWith(toLowerCase(content), CmdAdd) THEN "add"
  ELSE IF startsWith(toLowerCase(content), CmdRemove) THEN "remove"
  ELSE IF startsWith(toLowerCase(content), CmdEdit) THEN "edit"
  ELSE "plain"

\* which branch of the handler a normalized content takes
classify(content) ==
  IF startsWith(content, CmdHelp) THEN "help"
  ELSE IF startsWith(content, CmdList) THEN "list"
  ELSE IF startsWith(content, CmdAdd) THEN "add"
  ELSE IF startsWith(content, CmdRemove) THEN "remove"
  ELSE IF startsWith(content, CmdEdit) THEN "edit"
  ELSE "plain"

\* the author test, were it missing
authorIsBot_never(message) == FALSE

\* message.author.bot
authorIsBot(message) == message.bot

\* the handler's state when it reaches its first await (or returns)
dispatch(message) ==
  LET content == normalizeText(message.content)
      cmd == IF authorIsBot(message) THEN "ignored" ELSE classify(content)
      trigger == IF cmd \in {"add", "remove", "edit"} THEN firstQuoted(content) ELSE <<>>
      noTrigger == cmd \in {"add", "remove", "edit"} /\ trigger = <<>>
  IN  [msg |-> message,
       cmd |-> cmd,
       content |-> content,
       trigger |-> trigger,
       pc |-> IF cmd = "ignored" THEN "done"
              ELSE IF noTrigger THEN "catch"
              ELSE IF cmd = "help" THEN "send"
              ELSE IF cmd = "list" THEN "list_find"
              ELSE IF cmd = "add" THEN "add_findOne"
              ELSE IF cmd = "remove" THEN "remove_deleteOne"
              ELSE IF cmd = "edit" THEN "edit_findOne"
              ELSE "check_find",
       err |-> IF noTrigger THEN ErrFormat ELSE "",
       result |-> IF cmd = "help" THEN HelpText ELSE <<>>,
       response |-> <<>>,
       type |-> "",
       matches |-> <<>>,
       k |-> 0,
       sent |-> <<>>,
       before |-> store,
       gone |-> IF cmd = "list" THEN removed ELSE {},
       no |-> clock + 1,
       seen |-> {}]

IdleHandler ==
  [msg |-> NoMessage, cmd |-> "none", content |-> <<>>, trigger |-> <<>>,
   pc |-> "idle", err |-> "", result |-> <<>>, response |-> <<>>, type |-> "",
   matches |-> <<>>, k |-> 0, sent |-> <<>>, before |-> <<>>, gone |-> {},
   no |-> 0, seen |-> {}]

Init ==
  /\ store = <<>>
  /\ clock = 0
  /\ hs = [i \in Slots |-> IdleHandler]
  /\ promised = {}
  /\ standing = {}
  /\ removed = {}

Free(i) == hs[i].pc \in {"idle", "done"}

\* history: handler h, if in flight, notes that the handler in slot i has
\* changed the store
Noting(h, i, changed) ==
  IF changed /\ ~(h.pc \in {"idle", "done"}) THEN [h EXCEPT !.seen = @ \cup {hs[i].no}]
  ELSE h

\* the history entries of trigger t are dropped
Without(set, t) == {p \in set : p.trigger # t}

-----------------------------------------------------------------------------
(* The actions: a messageCreate event, and each handler's continuations *)

\* client.on("messageCreate", ...): a message arrives and its handler runs
\* to its first await
Receive(i, m) ==
  /\ Free(i)
  /\ clock < MaxMessages
  /\ clock' = clock + 1
  /\ hs' = [hs EXCEPT ![i] = dispatch(m)]
  /\ UNCHANGED <<store, promised, standing, removed>>

\* --list: responses.find().toArray() and the formatting of the reply
ListFind(i) ==
  /\ hs[i].pc = "list_find"
  /\ hs' = [hs EXCEPT ![i].result = ListText(store), ![i].pc = "send"]
  /\ UNCHANGED <<store, clock, promised, standing, removed>>

\* the duplicate check, were it to look the trigger up as typed
addExisting_asTyped(docs, trigger) == findOne(docs, trigger)

\* addResponse: existing = responses.findOne({trigger: trigger.toLowerCase()})
addExisting(docs, trigger) == findOne(docs, toLowerCase(trigger))

\* addResponse up to insertOne: the duplicate check, then the response
AddFindOne(i) ==
  /\ hs[i].pc = "add_findOne"
  /\ LET r == attachmentOrQuoted(hs[i].msg)
     IN  hs' = IF addExisting(store, hs[i].trigger)
               THEN [hs EXCEPT ![i].err = ErrExists, ![i].pc = "catch"]
               ELSE IF r.err # ""
               THEN [hs EXCEPT ![i].err = r.err, ![i].pc = "catch"]
               ELSE [hs EXCEPT ![i].response = r.response, ![i].type = r.type,
                               ![i].pc = "add_insertOne"]
  /\ UNCHANGED <<store, clock, promised, standing, removed>>

\* addResponse: insertOne takes effect, and the confirmation is built
AddInsertOne(i) ==
  /\ hs[i].pc = "add_insertOne"
  /\ store' = insertOne(store, [trigger |-> toLowerCase(hs[i].trigger),
                                response |-> hs[i].response,
                                type |-> hs[i].type,
                                createdAt |-> Now,
                                updatedAt |-> NoDate,
                                src |-> hs[i].msg])
  /\ hs' = [j \in Slots |->
              IF j = i
              THEN [hs[j] EXCEPT !.result = AddedText(hs[i].trigger, hs[i].type),
                                 !.pc = "send"]
              ELSE Noting([hs[j] EXCEPT !.gone = @ \ {toLowerCase(hs[i].trigger)}],
                          i, TRUE)]
  /\ removed' = removed \ {toLowerCase(hs[i].trigger)}
  /\ UNCHANGED <<clock, promised, standing>>

\* removeResponse: deleteOne takes effect, deletedCount is tested
RemoveDeleteOne(i) ==
  /\ hs[i].pc = "remove_deleteOne"
  /\ store' = deleteOne(store, toLowerCase(hs[i].trigger))
  /\ hs' = IF deletedCount(store, toLowerCase(hs[i].trigger)) = 0
           THEN [hs EXCEPT ![i].err = ErrNotFound, ![i].pc = "catch"]
           ELSE [j \in Slots |->
                   IF j = i
                   THEN [hs[j] EXCEPT !.result = RemovedText(hs[i].trigger),
                                      !.pc = "send",
                                      !.gone = {toLowerCase(hs[i].trigger)}]
                   ELSE Noting(hs[j], i, store' # store)]
  /\ LET kept(set) == IF deletedCount(store, toLowerCase(hs[i].trigger)) = 0
                      THEN set
                      ELSE Without(set, toLowerCase(hs[i].trigger))
     IN  /\ promised' = kept(promised)
         /\ standing' = kept(standing)
  /\ UNCHANGED <<clock, removed>>

\* editResponse: existing = responses.findOne({trigger: trigger.toLowerCase()})
editExisting(docs, trigger) == findOne(docs, toLowerCase(trigger))

\* editResponse up to updateOne: the lookup, then the response
EditFindOne(i) ==
  /\ hs[i].pc = "edit_findOne"
  /\ LET r == attachmentOrQuoted(hs[i].msg)
     IN  hs' = IF ~editExisting(store, hs[i].trigger)
               THEN [hs EXCEPT ![i].err = ErrNotFound, ![i].pc = "catch"]
               ELSE IF r.err # ""
               THEN [hs EXCEPT ![i].err = r.err, ![i].pc = "catch"]
               ELSE [hs EXCEPT ![i].response = r.response, ![i].type = r.type,
                               ![i].pc = "edit_updateOne"]
  /\ UNCHANGED <<store, clock, promised, standing, removed>>

\* editResponse: updateOne takes effect, and the confirmation is built
EditUpdateOne(i) ==
  /\ hs[i].pc = "edit_updateOne"
  /\ store' = updateOne(store, toLowerCase(hs[i].trigger), hs[i].response,
                        hs[i].type, Now, hs[i].msg)
  /\ hs' = [j \in Slots |->
              IF j = i
              THEN [hs[j] EXCEPT !.result = UpdatedText(hs[i].trigger, hs[i].type),
                                 !.pc = "send"]
              ELSE Noting(hs[j], i, store' # store)]
  /\ standing' = Without(standing, toLowerCase(hs[i].trigger))
  /\ UNCHANGED <<clock, promised, removed>>

\* plain text: checkMessages reads the collection and filters it
CheckFind(i) ==
  /\ hs[i].pc = "check_find"
  /\ LET found == checkMessages(store, hs[i].content)
     IN  hs' = [hs EXCEPT ![i].matches = found, ![i].k = 1,
                          ![i].pc = IF found = <<>> THEN "done" ELSE "match_send"]
  /\ UNCHANGED <<store, clock, promised, standing, removed>>

\* the reply of one match, by its type
MatchReply(match) ==
  IF match.type \in {"image", "file"} THEN FilesReply(match.response)
  ELSE TextReply(match.response)

\* the match loop, were a rejected send to reach the outer catch
afterMatchSend_abort(k, n, ok) ==
  IF ~ok THEN "catch" ELSE IF k = n THEN "done" ELSE "match_send"

\* where the match loop stands after the send of match k: a rejected send is
\* caught and logged inside the loop, which goes on either way
afterMatchSend(k, n, ok) == IF k = n THEN "done" ELSE "match_send"

\* one round of the match loop: a send that succeeds or is rejected
MatchSend(i, ok) ==
  /\ hs[i].pc = "match_send"
  /\ LET match == hs[i].matches[hs[i].k]
     IN  hs' = [hs EXCEPT ![i].sent = Append(@, [reply |-> MatchReply(match), ok |-> ok]),
                          ![i].k = @ + 1,
                          ![i].pc = afterMatchSend(hs[i].k, Len(hs[i].matches), ok)]
  /\ UNCHANGED <<store, clock, promised, standing, removed>>

\* a command's message.channel.send(result): it succeeds and the handler
\* returns, or it is rejected and the outer catch takes over
Send(i, ok) ==
  /\ hs[i].pc = "send"
  /\ hs' = [hs EXCEPT ![i].sent = Append(@, [reply |-> TextReply(hs[i].result), ok |-> ok]),
                      ![i].err = IF ok THEN @ ELSE ErrSend,
                      ![i].pc = IF ok THEN "done" ELSE "catch"]
  /\ LET t == toLowerCase(hs[i].trigger)
         pair == [trigger |-> t, response |-> hs[i].response]
         textAdd == ok /\ hs[i].cmd = "add" /\ hs[i].msg.attachments = <<>>
         remove == ok /\ hs[i].cmd = "remove"
     IN  /\ promised' = IF textAdd THEN promised \cup {pair} ELSE promised
         /\ standing' = IF textAdd THEN standing \cup {pair} ELSE standing
         /\ removed' = IF remove THEN removed \cup hs[i].gone ELSE removed
  /\ UNCHANGED <<store, clock>>

\* the outer catch: message.channel.send(`Error: ${err.message}`); when this
\* send is rejected too the handler ends with nothing more sent
Catch(i, ok) ==
  /\ hs[i].pc = "catch"
  /\ hs' = [hs EXCEPT ![i].sent = Append(@, [reply |-> TextReply(ErrorText(hs[i].err)),
                                             ok |-> ok]),
                      ![i].pc = "done"]
  /\ UNCHANGED <<store, clock, promised, standing, removed>>

\* one continuation of handler i
Step(i) ==
  \/ ListFind(i)
  \/ AddFindOne(i)
  \/ AddInsertOne(i)
  \/ RemoveDeleteOne(i)
  \/ EditFindOne(i)
  \/ EditUpdateOne(i)
  \/ CheckFind(i)
  \/ \E ok \in BOOLEAN : MatchSend(i, ok)
  \/ \E ok \in BOOLEAN : Send(i, ok)
  \/ \E ok \in BOOLEAN : Catch(i, ok)

\* a message arrives while other handlers may be in flight; its handler
\* takes the lowest free slot (the slots are interchangeable)
Arrive(m) ==
  \E i \in Slots :
    /\ \A j \in Slots : j < i => ~Free(j)
    /\ Receive(i, m)

\* the handlers of different messages interleave at every await
Next ==
  \/ \E m \in Messages : Arrive(m)
  \/ \E i \in Slots : Step(i)

Spec == Init /\ [][Next]_vars

\* the same, fed with the messages that carry attachments
NextFiles ==
  \/ \E m \in FileMessages : Arrive(m)
  \/ \E i \in Slots : Step(i)

SpecFiles == Init /\ [][NextFiles]_vars

\* messages handled one after another: a message arrives only when the
\* handler of the one before has returned
SeqReceive(m) ==
  /\ \A j \in Slots : Free(j)
  /\ Receive(1, m)

NextSeq ==
  \/ \E m \in SeqMessages : SeqReceive(m)
  \/ Step(1)

SpecSeq == Init /\ [][NextSeq]_vars

\* the first message of a behaviour
TextReceive(m) ==
  /\ clock = 0
  /\ SeqReceive(m)

\* the handler applied to an arbitrary short text: it is normalized on
\* arrival and, being no command, looked up in the store
NextText ==
  \/ \E m \in TextMessages : TextReceive(m)
  \/ CheckFind(1)

SpecText == Init /\ [][NextText]_vars

-----------------------------------------------------------------------------
(* Vocabulary of the properties *)

\* the handler of the sequential specification
H == hs[1]

\* sub occurs in text at offset off
OccursAt(sub, text, off) ==
  /\ off + Len(sub) <= Len(text)
  /\ \A j \in 1..Len(sub) : text[off + j] = sub[j]

IsSubstring(sub, text) == \E off \in 0..Len(text) : OccursAt(sub, text, off)

HasRecord(docs, t) == \E n \in DOMAIN docs : docs[n].trigger = t

ErrorReply(err) == [kind |-> "text", content |-> <<"Error: ", err>>]

\* the handler has returned from its store call(s) and built its reply
Returned(h) == h.pc = "done"

-----------------------------------------------------------------------------
(* C1: no two records of the store have the same lowercase trigger, in any  *)
(* state reached by interleaved handlers.                                   *)

C1_UniqueTriggers ==
  \A a, b \in DOMAIN store : a # b => store[a].trigger # store[b].trigger

-----------------------------------------------------------------------------
(* C2: messages handled one after another.  After `--add "t" "r"` is       *)
(* confirmed, every later plain-text message whose normalized lowercased    *)
(* text contains t is answered with the text reply r, until a Remove of t   *)
(* is confirmed; after that confirmation the message gets no reply for t.   *)

\* the text checkMessages looks the triggers up in
LoweredText(h) == toLowerCase(normalizeText(h.msg.content))

\* a plain-text message has been handled to the end, and each (t, r) of the
\* set whose t the text contains was sent r as a text
C2_Answered(pairs) ==
  (H.cmd = "plain" /\ Returned(H)) =>
    \A p \in pairs :
      IsSubstring(p.trigger, LoweredText(H)) =>
        \E k \in DOMAIN H.sent :
          H.sent[k].reply = [kind |-> "text", content |-> p.response]

\* no reply for a trigger whose Remove was confirmed (and that was not
\* inserted again since)
C2_Silent ==
  (H.cmd = "plain" /\ Returned(H)) =>
    \A t \in removed :
      /\ \A k \in DOMAIN H.matches : H.matches[k].trigger # t
      /\ ~HasRecord(store, t)

\* C2 as claimed: r is sent until a Remove of t (here: until the Remove has
\* deleted the record, which is before its confirmation)
C2_AsClaimed == C2_Answered(promised) /\ C2_Silent

\* C2 amended: r is sent until a Remove of t deletes the record or an Edit
\* of t updates it
C2_AddThenMatchUntilRemoveOrEdit == C2_Answered(standing) /\ C2_Silent

\* `oh hi` handled with hi removed and oh still standing
C2_Witness ==
  /\ H.cmd = "plain" /\ Returned(H)
  /\ \E p \in standing :
       /\ IsSubstring(p.trigger, LoweredText(H))
       /\ \E k \in DOMAIN H.sent :
            H.sent[k] = [reply |-> [kind |-> "text", content |-> p.response], ok |-> TRUE]
  /\ \E t \in removed : IsSubstring(t, LoweredText(H))

-----------------------------------------------------------------------------
(* C3: for a plain-text message checkMessages returns exactly the stored    *)
(* records whose trigger is a contiguous substring of the lowercased text,  *)
(* every one of them, in the order of the store; with no such record it     *)
(* returns the empty sequence and nothing is sent.                          *)

Hits(docs, text) == {n \in DOMAIN docs : IsSubstring(docs[n].trigger, text)}

C3_ExactlyTheContainedTriggers ==
  (H.cmd = "plain" /\ H.pc \in {"match_send", "done"}) =>
    LET hits == Hits(store, LoweredText(H))
    IN  /\ Len(H.matches) = Cardinality(hits)
        /\ \A k \in DOMAIN H.matches :
             \E n \in hits :
               /\ H.matches[k] = store[n]
               /\ Cardinality({x \in hits : x < n}) = k - 1
        /\ hits = {} => (H.matches = <<>> /\ H.sent = <<>> /\ H.pc = "done")

\* two records match, and in the order of the store
C3_Witness ==
  /\ H.cmd = "plain" /\ H.pc = "done"
  /\ Len(H.matches) = 2
  /\ H.matches = store

-----------------------------------------------------------------------------
(* C4: when a plain-text message matches several records, a delivery is     *)
(* attempted for every match, in order; a rejected delivery neither stops   *)
(* the remaining ones nor produces an `Error:` reply.                       *)

C4_EveryMatchAttempted ==
  (H.cmd = "plain" /\ Returned(H)) =>
    /\ Len(H.sent) = Len(H.matches)
    /\ \A k \in DOMAIN H.sent :
         /\ H.sent[k].reply.content = H.matches[k].response
         /\ H.sent[k].reply.kind =
              (IF H.matches[k].type = "text" THEN "text" ELSE "files")
         /\ H.sent[k].reply.content # <<>> => Head(H.sent[k].reply.content) # "Error: "

\* the first of two deliveries was rejected, the second was made
C4_Witness ==
  /\ H.cmd = "plain" /\ Returned(H)
  /\ Len(H.matches) >= 2
  /\ Len(H.sent) >= 2
  /\ ~H.sent[1].ok

-----------------------------------------------------------------------------
(* C5: of two Adds of the same lowercase trigger handled one after the      *)
(* other, the second fails with `Error: Trigger already exists`, whatever   *)
(* the letter case of the two, and leaves the store as the first left it.   *)

C5_SecondAddFails ==
  (H.cmd = "add" /\ Returned(H) /\ HasRecord(H.before, toLowerCase(H.trigger))) =>
    /\ Len(H.sent) = 1
    /\ H.sent[1].reply = ErrorReply("Trigger already exists")
    /\ store = H.before

\* `--add "Hi" "ok"` handled after `--add "hi" "yo"`
C5_Witness ==
  /\ H.cmd = "add" /\ Returned(H)
  /\ H.msg = AddHiUpperOk
  /\ H.before # <<>> /\ H.before[1].src = AddHiYo
  /\ H.sent # <<>> /\ H.sent[1].reply = ErrorReply("Trigger already exists")

-----------------------------------------------------------------------------
(* C6: after a Remove of trigger t has been confirmed, a List handled       *)
(* afterwards, with no Add of t in between, does not show t; also when the  *)
(* handlers that led to the state interleaved.                              *)

\* the --list reply has a line for trigger t
Shows(text, t) == IsSubstring(<<"- ", DQ>> \o t \o <<DQ>>, text)

\* gone holds the triggers whose Remove was confirmed before the List
\* arrived and that no insertOne has added since that Remove's deleteOne
C6_RemovedNotListed ==
  \A i \in Slots :
    (hs[i].cmd = "list" /\ hs[i].pc \in {"send", "catch", "done"}) =>
      \A t \in hs[i].gone : ~Shows(hs[i].result, t)

-----------------------------------------------------------------------------
(* C7: a Remove or an Edit whose lowercase trigger has no record fails      *)
(* with `Error: Trigger not found` and leaves the store unchanged.          *)

C7_MissingTriggerFails ==
  (/\ H.cmd \in {"remove", "edit"} /\ Returned(H)
   /\ H.trigger # <<>>
   /\ ~HasRecord(H.before, toLowerCase(H.trigger))) =>
    /\ Len(H.sent) = 1
    /\ H.sent[1].reply = ErrorReply("Trigger not found")
    /\ store = H.before

\* an Edit of a trigger that a non-empty store does not hold
C7_Witness ==
  /\ H.cmd = "edit" /\ Returned(H)
  /\ store # <<>>
  /\ ~HasRecord(H.before, toLowerCase(H.trigger))
  /\ H.sent # <<>> /\ H.sent[1].reply = ErrorReply("Trigger not found")

-----------------------------------------------------------------------------
(* C8: a successful Edit of trigger t changes only the response, the type   *)
(* and updatedAt of the record of t; its trigger and createdAt, every other *)
(* record and the number of records are unchanged.                          *)

\* the Edit's updateOne has run: its confirmation is built
Updated(h) == h.cmd = "edit" /\ h.pc \in {"send", "catch", "done"} /\ h.result # <<>>

C8_EditChangesOnlyResponse ==
  Updated(H) =>
    /\ Len(store) = Len(H.before)
    /\ \A n \in DOMAIN store :
         IF H.before[n].trigger = toLowerCase(H.trigger)
         THEN /\ store[n].trigger = H.before[n].trigger
              /\ store[n].createdAt = H.before[n].createdAt
              /\ store[n].response = H.response
              /\ store[n].type = H.type
              /\ store[n].updatedAt = clock
         ELSE store[n] = H.before[n]

\* an Edit that changed the response and the type of one of two records
C8_Witness ==
  /\ Updated(H) /\ Returned(H)
  /\ Len(store) = 2
  /\ \E n \in DOMAIN store :
       /\ store[n].response # H.before[n].response
       /\ store[n].type # H.before[n].type
       /\ store[n].updatedAt # NoDate
       /\ store[n].updatedAt # store[n].createdAt

-----------------------------------------------------------------------------
(* C9: an Add or Edit of a message without attachment succeeds only when    *)
(* the message holds exactly two quoted strings, and then stores the second *)
(* as the response, with type text; with any other number it fails with     *)
(* the invalid-format error and writes nothing.                             *)

\* the error the failing Add or Edit reports, given which one is expected
C9_Rule(expected(_)) ==
  (H.cmd \in {"add", "edit"} /\ Returned(H) /\ H.msg.attachments = <<>>) =>
    LET quoted == extractQuotedStrings(H.msg.content)
    IN  /\ store # H.before =>
             /\ Len(quoted) = 2
             /\ \E n \in DOMAIN store :
                  /\ store[n].trigger = toLowerCase(H.trigger)
                  /\ store[n].response = quoted[2]
                  /\ store[n].type = "text"
        /\ Len(quoted) # 2 =>
             /\ store = H.before
             /\ H.sent # <<>>
             /\ H.sent[1].reply = ErrorReply(expected(H))

C9_InvalidFormat(h) == "Invalid format"

\* the lookup of the trigger comes first: an Add of a stored trigger and an
\* Edit of a missing one fail at the lookup, whatever the format
C9_LookupThenFormat(h) ==
  IF h.trigger = <<>> THEN "Invalid format"
  ELSE IF h.cmd = "add" /\ HasRecord(h.before, toLowerCase(h.trigger))
  THEN "Trigger already exists"
  ELSE IF h.cmd = "edit" /\ ~HasRecord(h.before, toLowerCase(h.trigger))
  THEN "Trigger not found"
  ELSE "Invalid format"

\* C9 as claimed
C9_AsClaimed == C9_Rule(C9_InvalidFormat)

\* C9 amended: the failure is the invalid-format error unless the lookup of
\* the trigger has failed first
C9_TwoQuotedOrInvalidFormat == C9_Rule(C9_LookupThenFormat)

\* an Edit with one quoted string fails on a record a two-string Add stored
C9_Witness ==
  /\ H.msg = EditHiOnly /\ Returned(H)
  /\ H.sent[1].reply = ErrorReply("Invalid format")
  /\ store = H.before
  /\ Len(store) = 1 /\ store[1].src = AddHiYo
  /\ store[1].response = Yo /\ store[1].type = "text"

-----------------------------------------------------------------------------
(* C10: in every reachable state every record's type agrees with where its  *)
(* response came from: text for the second quoted string of a message       *)
(* without attachment; image for the URL of the first attachment when that  *)
(* attachment declared a content type starting with `image/`; file for the  *)
(* URL of the first attachment otherwise.  An attachment wins over quotes.  *)

DeclaresImage(attachment) ==
  /\ Len(attachment.contentType) >= 6
  /\ SubSeq(attachment.contentType, 1, 6) = <<"i","m","a","g","e","/">>

C10_TypeMatchesOrigin ==
  \A n \in DOMAIN store :
    LET doc == store[n]
        from == doc.src
    IN  IF from.attachments # <<>>
        THEN /\ doc.response = from.attachments[1].url
             /\ doc.type = IF DeclaresImage(from.attachments[1]) THEN "image" ELSE "file"
        ELSE /\ doc.type = "text"
             /\ Len(extractQuotedStrings(from.content)) = 2
             /\ doc.response = extractQuotedStrings(from.content)[2]

\* an image record made by an Edit, beside a file record of an attachment
\* without content type
C10_Witness ==
  /\ Len(store) = 2
  /\ \E n \in DOMAIN store : store[n].type = "image" /\ store[n].src = EditHiPng
  /\ \E n \in DOMAIN store : store[n].type = "file" /\ store[n].src = AddOhBlob

-----------------------------------------------------------------------------
(* C11: for every command message, when its handling ends with an `Error:`  *)
(* reply, exactly one such reply was sent for it, no confirmation was       *)
(* delivered for it, and the trigger store is as the message found it.      *)

Commands == {"help", "list", "add", "remove", "edit"}

IsErrorReply(reply) ==
  reply.kind = "text" /\ reply.content # <<>> /\ Head(reply.content) = "Error: "

IsConfirmation(reply) ==
  /\ reply.kind = "text" /\ reply.content # <<>>
  /\ Head(reply.content) \in {"Added: ", "Removed: ", "Updated: "}

C11_ErrorMeansNoChange ==
  (/\ H.cmd \in Commands /\ Returned(H)
   /\ \E k \in DOMAIN H.sent : IsErrorReply(H.sent[k].reply) /\ H.sent[k].ok) =>
    /\ Cardinality({k \in DOMAIN H.sent : IsErrorReply(H.sent[k].reply)}) = 1
    /\ \A k \in DOMAIN H.sent : IsConfirmation(H.sent[k].reply) => ~H.sent[k].ok
    /\ store = H.before

-----------------------------------------------------------------------------
(* C12: a message that begins with a command prefix is never handled as     *)
(* plain text: it is taken by the one command of its prefix, checkMessages  *)
(* is not run for it, and nothing is sent for it but that command's reply   *)
(* or an `Error:` reply, also when its text contains stored triggers.       *)

Prefix(c) ==
  CASE c = "help" -> CmdHelp
    [] c = "list" -> CmdList
    [] c = "add" -> CmdAdd
    [] c = "remove" -> CmdRemove
    [] c = "edit" -> CmdEdit

\* the commands whose prefix the text begins with
BeginsWith(text) == {c \in Commands : OccursAt(Prefix(c), text, 0)}

\* the continuations a command may stand at
StepsOf(c) ==
  CASE c = "help" -> {}
    [] c = "list" -> {"list_find"}
    [] c = "add" -> {"add_findOne", "add_insertOne"}
    [] c = "remove" -> {"remove_deleteOne"}
    [] c = "edit" -> {"edit_findOne", "edit_updateOne"}

C12_CommandNeverPlain ==
  LET begun == BeginsWith(normalizeText(H.msg.content))
  IN  (H.pc # "idle" /\ ~H.msg.bot /\ begun # {}) =>
        /\ H.cmd \in begun
        /\ H.pc \in StepsOf(H.cmd) \cup {"send", "catch", "done"}
        /\ H.matches = <<>> /\ H.k = 0
        /\ Len(H.sent) <= 2
        /\ \A k \in DOMAIN H.sent :
             \/ IsErrorReply(H.sent[k].reply)
             \/ /\ k = 1
                /\ H.sent[k].reply.kind = "text"
                /\ Head(H.sent[k].reply.content) \in
                     {Head(HelpText), "Responses:", "Added: ",
                      "Removed: ", "Updated: "}

\* `--edit "hi" "ok"` confirmed while the store held the trigger hi, which
\* the text of the message contains
C12_Witness ==
  /\ H.msg = EditHiOk /\ Returned(H)
  /\ HasRecord(H.before, Hi)
  /\ IsSubstring(Hi, LoweredText(H))
  /\ H.sent = <<[reply |-> TextReply(UpdatedText(Hi, "text")), ok |-> TRUE]>>

-----------------------------------------------------------------------------
(* C13: command classification is a prefix match on the normalized message  *)
(* as written: a message is taken as a command exactly when its normalized  *)
(* text begins with the lowercase prefix, and every other message, one      *)
(* whose prefix is written in another letter case included, is plain text.  *)

ClassOf(text) ==
  IF BeginsWith(text) = {} THEN "plain" ELSE CHOOSE c \in BeginsWith(text) : TRUE

\* C13 as claimed: the prefix is looked for in the lowercased text
C13_AsClaimed ==
  (H.pc # "idle" /\ ~H.msg.bot) =>
    H.cmd = ClassOf(toLowerCase(normalizeText(H.msg.content)))

C13_CaseSensitivePrefix ==
  (H.pc # "idle" /\ ~H.msg.bot) =>
    /\ H.cmd = ClassOf(normalizeText(H.msg.content))
    /\ (/\ BeginsWith(normalizeText(H.msg.content)) = {}
        /\ BeginsWith(LoweredText(H)) # {}) => H.cmd = "plain"

\* `--ADD "hi" "yo"` answered as the plain text it is taken for
C13_Witness ==
  /\ H.msg = AddHiYoCaps /\ Returned(H)
  /\ H.cmd = "plain"
  /\ H.matches # <<>>
  /\ Len(H.sent) = Len(H.matches)

-----------------------------------------------------------------------------
(* C14: matching is case-insensitive: no stored trigger holds an uppercase  *)
(* letter, and a plain-text message that contains, in any letter case, the  *)
(* trigger a record was written with, in any letter case, matches that      *)
(* record.                                                                  *)

SameLetter(a, b) ==
  a = b \/ \E n \in DOMAIN UpperLetters : {a, b} = {UpperLetters[n], LowerLetters[n]}

\* word occurs in text, letter case aside
ContainsAnyCase(text, word) ==
  \E off \in 0..Len(text) :
    /\ off + Len(word) <= Len(text)
    /\ \A j \in 1..Len(word) : SameLetter(text[off + j], word[j])

\* the trigger as typed in the message that wrote the record
TypedTrigger(doc) == firstQuoted(normalizeText(doc.src.content))

C14_CaseInsensitiveMatch ==
  /\ \A n \in DOMAIN store : \A j \in DOMAIN store[n].trigger :
       \A u \in DOMAIN UpperLetters : store[n].trigger[j] # UpperLetters[u]
  /\ (H.cmd = "plain" /\ H.pc \in {"match_send", "done"}) =>
       \A n \in DOMAIN store :
         ContainsAnyCase(normalizeText(H.msg.content), TypedTrigger(store[n])) =>
           \E k \in DOMAIN H.matches : H.matches[k] = store[n]

\* `HI!` answered from the record that `--add "Hi" "ok"` wrote
C14_Witness ==
  /\ H.msg = PlainHiUpper /\ Returned(H)
  /\ \E n \in DOMAIN store :
       /\ store[n].src = AddHiUpperOk
       /\ TypedTrigger(store[n]) = HiUpper
       /\ store[n].trigger = Hi
       /\ H.matches = <<store[n]>>
  /\ H.sent = <<[reply |-> TextReply(Ok), ok |-> TRUE]>>

-----------------------------------------------------------------------------
(* C15: two Add handlers of the same trigger that interleave can both pass  *)
(* the duplicate check before either inserts; a handler that has passed    *)
(* the check inserts its record whatever the store holds by then and sends  *)
(* the `Added` confirmation, so both insert and both confirm.               *)

\* handler i has passed the duplicate check and not yet inserted
PassedCheck(i) == hs[i].cmd = "add" /\ hs[i].pc = "add_insertOne"

C15_InsertAfterCheck ==
  \A i \in Slots :
    /\ (PassedCheck(i) /\ hs'[i].pc # hs[i].pc) =>
         /\ Len(store') = Len(store) + 1
         /\ SubSeq(store', 1, Len(store)) = store
         /\ store'[Len(store')].trigger = toLowerCase(hs[i].trigger)
         /\ store'[Len(store')].src = hs[i].msg
         /\ hs'[i].pc = "send"
    /\ (hs[i].cmd = "add" /\ hs[i].pc = "send" /\ hs'[i].pc # hs[i].pc) =>
         /\ Len(hs'[i].sent) = 1
         /\ hs'[i].sent[1].reply = TextReply(AddedText(hs[i].trigger, hs[i].type))

C15_BothAddsInsert == [][C15_InsertAfterCheck]_vars

\* both handlers have confirmed, and the store holds the record of each
C15_Witness ==
  \E i, j \in Slots :
    /\ i # j
    /\ hs[i].cmd = "add" /\ hs[j].cmd = "add"
    /\ toLowerCase(hs[i].trigger) = toLowerCase(hs[j].trigger)
    /\ ~HasRecord(hs[i].before, toLowerCase(hs[i].trigger))
    /\ ~HasRecord(hs[j].before, toLowerCase(hs[j].trigger))
    /\ Returned(hs[i]) /\ Returned(hs[j])
    /\ hs[i].sent = <<[reply |-> TextReply(AddedText(hs[i].trigger, hs[i].type)), ok |-> TRUE]>>
    /\ hs[j].sent = <<[reply |-> TextReply(AddedText(hs[j].trigger, hs[j].type)), ok |-> TRUE]>>
    /\ \E a, b \in DOMAIN store :
         /\ a # b
         /\ store[a].trigger = store[b].trigger
         /\ store[a].src = hs[i].msg /\ store[a].createdAt = store[b].createdAt
         /\ store[b].src = hs[j].msg

-----------------------------------------------------------------------------
(* C16: an Add or Edit whose trigger and response stand in smart (curly)    *)
(* quotes has the outcome of the same command written with plain quotes:    *)
(* the same reply, and the same record in the store.                        *)

\* the text with every smart quote replaced by its plain quote
PlainQuotes(text) ==
  [i \in DOMAIN text |->
     IF text[i] \in {"LDQ", "RDQ"} THEN DQ
     ELSE IF text[i] \in {"LSQ", "RSQ"} THEN SQ
     ELSE text[i]]

\* the same message written with plain quotes
PlainTwin(m) == [m EXCEPT !.content = PlainQuotes(m.content)]

C16_QuoteStyleAgnostic ==
  (H.cmd \in {"add", "edit"} /\ Returned(H) /\ H.trigger # <<>>) =>
    LET t == toLowerCase(H.trigger)
        held == HasRecord(H.before, t)
        r == attachmentOrQuoted(PlainTwin(H.msg))
        err == IF H.cmd = "add" /\ held THEN "Trigger already exists"
               ELSE IF H.cmd = "edit" /\ ~held THEN "Trigger not found"
               ELSE r.err
    IN  IF err # ""
        THEN H.sent[1].reply = ErrorReply(err) /\ store = H.before
        ELSE /\ IsConfirmation(H.sent[1].reply)
             /\ \E n \in DOMAIN store :
                  /\ store[n].trigger = t
                  /\ store[n].response = r.response
                  /\ store[n].type = r.type

-----------------------------------------------------------------------------
(* C17: on a text of ASCII characters only, normalizeText changes nothing   *)
(* but the whitespace at its two ends, which it drops; an ASCII text with   *)
(* no whitespace at either end is returned as it is.                        *)

NonAscii == {"LSQ", "RSQ", "LDQ", "RDQ", "EN", "EM", "ARROW"}

IsAscii(text) == \A j \in DOMAIN text : text[j] \notin NonAscii

Blank(c) == c \in {" ", "\n", "\t"}

\* C17 as claimed: the identity on every ASCII text
C17_AsClaimed ==
  (H.pc # "idle" /\ IsAscii(H.msg.content)) => H.content = H.msg.content

C17_IdentityUpToTrim ==
  (H.pc # "idle" /\ IsAscii(H.msg.content)) =>
    LET text == H.msg.content
    IN  /\ \E a, b \in 0..Len(text) :
             /\ a + b <= Len(text)
             /\ \A j \in 1..a : Blank(text[j])
             /\ \A j \in (Len(text) - b + 1)..Len(text) : Blank(text[j])
             /\ H.content = SubSeq(text, a + 1, Len(text) - b)
        /\ H.content # <<>> =>
             ~Blank(H.content[1]) /\ ~Blank(H.content[Len(H.content)])
        /\ (text # <<>> /\ ~Blank(text[1]) /\ ~Blank(text[Len(text)])) =>
             H.content = text

\* ` "-` normalized to `"-`: the space is dropped, quote and hyphen stay
C17_Witness ==
  /\ H.msg.content = <<" ", DQ, "-">>
  /\ H.content = <<DQ, "-">>
  /\ Returned(H)

-----------------------------------------------------------------------------
(* C18: whenever an Edit goes on to its `Updated` confirmation, its update  *)
(* step has modified a record of its trigger: after that step the store     *)
(* holds a record of the trigger with the new response, also when a Remove  *)
(* of the trigger ran between the Edit's findOne and its updateOne.         *)

C18_UpdateStepModifies ==
  \A i \in Slots :
    (/\ hs[i].cmd = "edit" /\ hs[i].pc = "edit_updateOne"
     /\ hs'[i].pc = "send"
     /\ hs'[i].result = UpdatedText(hs[i].trigger, hs[i].type)) =>
      \E n \in DOMAIN store' :
        /\ store'[n].trigger = toLowerCase(hs[i].trigger)
        /\ store'[n].response = hs[i].response
        /\ store'[n].type = hs[i].type
        /\ store'[n].src = hs[i].msg

C18_UpdatedMeansModified == [][C18_UpdateStepModifies]_vars

-----------------------------------------------------------------------------
(* C19: two Remove handlers of the same trigger that interleave on a store  *)
(* with exactly one record of it, nobody else changing the store meanwhile: *)
(* exactly one of them replies `Removed` and the other replies              *)
(* `Error: Trigger not found`; the record is deleted once.                  *)

\* both handlers are Removes of the same trigger that found the same store,
\* with one record of the trigger, and have returned; while either was in
\* flight nobody but the other changed the store
C19_TwoRemoves(i, j) ==
  /\ i # j
  /\ hs[i].cmd = "remove" /\ hs[j].cmd = "remove"
  /\ hs[i].trigger # <<>>
  /\ toLowerCase(hs[i].trigger) = toLowerCase(hs[j].trigger)
  /\ hs[i].before = hs[j].before
  /\ Cardinality({n \in DOMAIN hs[i].before :
                    hs[i].before[n].trigger = toLowerCase(hs[i].trigger)}) = 1
  /\ Returned(hs[i]) /\ Returned(hs[j])
  /\ hs[i].seen \subseteq {hs[j].no}
  /\ hs[j].seen \subseteq {hs[i].no}

\* handler h replied `Removed` first, handler g `Error: Trigger not found`
C19_Outcome(h, g) ==
  /\ h.sent[1].reply = TextReply(RemovedText(h.trigger))
  /\ g.sent = <<[reply |-> ErrorReply("Trigger not found"), ok |-> g.sent[1].ok]>>
  /\ h.seen = {} /\ g.seen = {h.no}

C19_OneRemoveSucceeds ==
  \A i, j \in Slots :
    C19_TwoRemoves(i, j) =>
      \/ C19_Outcome(hs[i], hs[j])
      \/ C19_Outcome(hs[j], hs[i])

\* the two replies delivered, and the record gone
C19_Witness ==
  \E i, j \in Slots :
    /\ C19_TwoRemoves(i, j)
    /\ C19_Outcome(hs[i], hs[j])
    /\ hs[i].sent = <<[reply |-> TextReply(RemovedText(hs[i].trigger)), ok |-> TRUE]>>
    /\ hs[j].sent[1].ok
    /\ Len(store) = Len(hs[i].before) - 1
    /\ ~HasRecord(store, toLowerCase(hs[i].trigger))

-----------------------------------------------------------------------------
(* C20: a message whose author is a bot is ignored entirely: its handler    *)
(* returns at once, reads and writes no record and sends nothing, also      *)
(* when the text is a stored response that contains a stored trigger, or   *)
(* begins with a command prefix (as the bot's own replies may).             *)

C20_BotIgnored ==
  (H.pc # "idle" /\ H.msg.bot) =>
    /\ H.pc = "done"
    /\ H.sent = <<>>
    /\ H.matches = <<>> /\ H.k = 0
    /\ H.result = <<>> /\ H.err = ""
    /\ store = H.before

\* the bot's reply `hi` (the stored response of oh) comes back as a message
\* while hi is itself a stored trigger
C20_Witness ==
  /\ H.msg = BotHi /\ Returned(H)
  /\ \E a, b \in DOMAIN store :
       /\ store[a].response = H.msg.content
       /\ store[b].trigger = H.msg.content
  /\ H.sent = <<>>

=============================================================================
